---- MODULE Spec2Model ----
(***************************************************************************)
(* TIS validation tool: the submission service (Express + Mongoose), the   *)
(* submission client (axios wrapper submitForm) and the form component     *)
(* (TISValidationTool) with its draft in localStorage.                     *)
(*                                                                         *)
(* Text values are sequences of one-character strings, so that trimming,   *)
(* HTML-escaping, length limits and the regular expressions are computed   *)
(* character by character.  Messages and error codes, which the program    *)
(* only copies and compares, are plain strings.                            *)
(***************************************************************************)
EXTENDS Integers, Sequences, FiniteSets, TLC

(***************************************************************************)
(* Bounds of the model                                                     *)
(***************************************************************************)
\* number of ObjectIds the store can hand out in one behaviour
MaxIds == 2
\* last value of the server clock
MaxTime == 1
\* timers of handleSaveDraft that can be pending together
MaxTimers == 2
\* handleSubmit invocations that can be suspended together
MaxAwaiting == 2

(***************************************************************************)
(* Program constants                                                       *)
(***************************************************************************)
NameMinLen == 2
NameMaxLen == 100
DescMinLen == 10
DescMaxLen == 500
DefaultPage == 1
DefaultLimit == 10
DefaultRetries == 3
ObjectIdHexLen == 24

(***************************************************************************)
(* Characters and strings                                                  *)
(***************************************************************************)
Upper == {"A","B","C","D","E","F","G","H","I","J","K","L","M",
          "N","O","P","Q","R","S","T","U","V","W","X","Y","Z"}
Lower == {"a","b","c","d","e","f","g","h","i","j","k","l","m",
          "n","o","p","q","r","s","t","u","v","w","x","y","z"}
DigitChars == <<"0","1","2","3","4","5","6","7","8","9">>
Digit == {DigitChars[i] : i \in 1..10}
HexDigit == Digit \cup {"a","b","c","d","e","f"} \cup {"A","B","C","D","E","F"}
\* the class \s of a JavaScript regular expression, which is also what
\* String.prototype.trim strips (the ASCII members used by the model)
Whitespace == {" ", "\t", "\n", "\r", "\f"}

\* the character U+0060, for which TLA+ has no string literal
Backtick == "GRAVE"

Rep(c, n) == [i \in 1..n |-> c]

SetMin(S) == CHOOSE x \in S : \A y \in S : x <= y
SetMax(S) == CHOOSE x \in S : \A y \in S : x >= y

\* String.prototype.trim
Trim(s) ==
    LET keep == {i \in 1..Len(s) : s[i] \notin Whitespace}
    IN  IF keep = {} THEN <<>> ELSE SubSeq(s, SetMin(keep), SetMax(keep))

\* validator.escape: the replacement of one character
EscapeChar(c) ==
    CASE c = "&"  -> <<"&","a","m","p",";">>
      [] c = "\"" -> <<"&","q","u","o","t",";">>
      [] c = "'"  -> <<"&","#","x","2","7",";">>
      [] c = "<"  -> <<"&","l","t",";">>
      [] c = ">"  -> <<"&","g","t",";">>
      [] c = "/"  -> <<"&","#","x","2","F",";">>
      [] c = "\\" -> <<"&","#","x","5","C",";">>
      [] c = Backtick -> <<"&","#","9","6",";">>
      [] OTHER    -> <<c>>

\* validator.escape: every character replaced, in order (the string is split in
\* halves so that the recursion stays shallow)
RECURSIVE Escape(_)
Escape(s) ==
    IF s = <<>> THEN <<>>
    ELSE IF Len(s) = 1 THEN EscapeChar(s[1])
    ELSE Escape(SubSeq(s, 1, Len(s) \div 2)) \o Escape(SubSeq(s, Len(s) \div 2 + 1, Len(s)))

(***************************************************************************)
(* Request bodies.  A body is a function from the keys it carries to their *)
(* values: the five text fields, and optionally submittedAt.               *)
(***************************************************************************)
Fields == {"name", "productLine", "erCode", "description", "modelNumber"}
SchemaPaths == <<"name", "productLine", "erCode", "description", "modelNumber">>

Has(body, k) == k \in DOMAIN body

\* sanitizeInput: every string value of the body is trimmed, then escaped.
\* A submittedAt sent by the client is an ISO date string, which trimming and
\* escaping leave as it is.
SanitizeInput(body) ==
    [k \in DOMAIN body |-> IF k \in Fields THEN Escape(Trim(body[k])) ELSE body[k]]

\* !formData.f of the handler: the key is absent or its value is the empty string
Falsy(formData, f) == ~Has(formData, f) \/ formData[f] = <<>>

(***************************************************************************)
(* formSubmissionSchema                                                    *)
(***************************************************************************)
ProductLineEnum == {
    <<"1","2">>, <<"1","3">>, <<"1","5">>, <<"2","4">>, <<"2","5">>, <<"4","5">>,
    <<"8","0">>, <<"1","A">>, <<"1","B">>, <<"1","H">>, <<"3","E">>, <<"4","W">>,
    <<"8","F">>, <<"A","E">>, <<"A","V">>, <<"B","L">>, <<"C","M">>, <<"C","N">>,
    <<"D","I">>, <<"D","T">>, <<"E","G">>, <<"G","M">>,
    <<"G","M","(","E","I","P",")">>, <<"L","B">>, <<"M","M","A">>, <<"N","A">>,
    <<"N","S">>, <<"N","T">>, <<"Q","B">>, <<"Q","W">>, <<"Q","X">>, <<"S","P">>,
    <<"T","G">>, <<"T","J">>, <<"W","N"," ","K","o","b","e">>,
    <<"W","N"," ","P","M","P","S">>, <<"W","N"," ","S","o","c","o">>,
    <<"W","N"," ","T","A","O">> }

\* /^[a-zA-Z\s]+$/
NameRegex(v) ==
    /\ Len(v) >= 1
    /\ \A i \in 1..Len(v) : v[i] \in Upper \cup Lower \cup Whitespace

\* /^ER[0-9]{6}$/
ERCodeRegex(v) ==
    /\ Len(v) = 8
    /\ v[1] = "E"
    /\ v[2] = "R"
    /\ \A i \in 3..8 : v[i] \in Digit

\* /^[A-Z]{2}[0-9]{4}[A-Z]?$/
ModelNumberRegex(v) ==
    /\ Len(v) \in {6, 7}
    /\ \A i \in 1..2 : v[i] \in Upper
    /\ \A i \in 3..6 : v[i] \in Digit
    /\ Len(v) = 7 => v[7] \in Upper

NoError == ""

\* The validators of one schema path, in the order Mongoose runs them
\* (required first, then in the order of the schema options); the message of
\* the first that fails, or NoError.
PathError(path, v) ==
    CASE path = "name" ->
           IF v = <<>> THEN "Name is required"
           ELSE IF Len(v) < NameMinLen THEN "Name must be at least 2 characters"
           ELSE IF Len(v) > NameMaxLen THEN "Name must be less than 100 characters"
           ELSE IF ~NameRegex(v) THEN "Name can only contain letters and spaces"
           ELSE NoError
      [] path = "productLine" ->
           IF v = <<>> THEN "Product Line is required"
           ELSE IF v \notin ProductLineEnum THEN "Please select a valid product line"
           ELSE NoError
      [] path = "erCode" ->
           IF v = <<>> THEN "ER Code is required"
           ELSE IF ~ERCodeRegex(v) THEN "ER Code format must be ER followed by 6 digits"
           ELSE NoError
      [] path = "description" ->
           IF v = <<>> THEN "Description is required"
           ELSE IF Len(v) < DescMinLen THEN "Description must be at least 10 characters"
           ELSE IF Len(v) > DescMaxLen THEN "Description must be less than 500 characters"
           ELSE NoError
      [] path = "modelNumber" ->
           IF v = <<>> THEN "Model Number is required"
           ELSE IF ~ModelNumberRegex(v)
                THEN "Model Number format must be 2 letters + 4 digits + optional letter"
           ELSE NoError

\* error.errors of a Mongoose ValidationError, as the handler reads it:
\* Object.values(error.errors).map(e => e.message), one entry per failing path
ValidationErrors(doc) ==
    LET all == [i \in 1..Len(SchemaPaths) |-> PathError(SchemaPaths[i], doc[SchemaPaths[i]])]
    IN  SelectSeq(all, LAMBDA m : m # NoError)

MutObjectIdIsValidAlways(id) == TRUE

\* mongoose.Types.ObjectId.isValid of a route parameter: a string of 24
\* hexadecimal digits
ObjectIdIsValid(id) ==
    /\ Len(id) = ObjectIdHexLen
    /\ \A i \in 1..Len(id) : id[i] \in HexDigit

\* the n-th ObjectId the store hands out
ObjectIdOf(n) == Rep("0", ObjectIdHexLen - 1) \o <<DigitChars[n + 1]>>

(***************************************************************************)
(* TISValidationTool: the validators of the form and the draft text        *)
(***************************************************************************)
DraftSavedMs == 3

ValidationResult(isValid, message) == [isValid |-> isValid, message |-> message]

\* /^[A-Z]{2,4}-[0-9]{2,4}$/
ProductLineRegex(v) ==
    \E k \in 2..4 :
        /\ Len(v) - k - 1 \in 2..4
        /\ \A i \in 1..k : v[i] \in Upper
        /\ v[k + 1] = "-"
        /\ \A i \in (k + 2)..Len(v) : v[i] \in Digit

validateName(value) ==
    IF value = <<>> THEN ValidationResult(FALSE, "Name is required")
    ELSE IF Len(value) < 2 THEN ValidationResult(FALSE, "Name must be at least 2 characters")
    ELSE IF ~NameRegex(value)
         THEN ValidationResult(FALSE, "Name can only contain letters and spaces")
    ELSE ValidationResult(TRUE, "Valid name format")

MutValidateProductLineNoPattern(value) ==
    IF value = <<>> THEN ValidationResult(FALSE, "Product Line is required")
    ELSE IF Len(value) < 3
         THEN ValidationResult(FALSE, "Product Line must be at least 3 characters")
    ELSE ValidationResult(TRUE, "Valid product line format")

validateProductLine(value) ==
    IF value = <<>> THEN ValidationResult(FALSE, "Product Line is required")
    ELSE IF Len(value) < 3
         THEN ValidationResult(FALSE, "Product Line must be at least 3 characters")
    ELSE IF ~ProductLineRegex(value)
         THEN ValidationResult(FALSE, "Format: XX-99 (2-4 letters, dash, 2-4 numbers)")
    ELSE ValidationResult(TRUE, "Valid product line format")

validateERCode(value) ==
    IF value = <<>> THEN ValidationResult(FALSE, "ER Code is required")
    ELSE IF ~ERCodeRegex(value)
         THEN ValidationResult(FALSE, "Format: ER followed by 6 digits (e.g., ER123456)")
    ELSE ValidationResult(TRUE, "Valid ER code format")

validateDescription(value) ==
    IF value = <<>> THEN ValidationResult(FALSE, "Description is required")
    ELSE IF Len(value) < 10
         THEN ValidationResult(FALSE, "Description must be at least 10 characters")
    ELSE IF Len(value) > 500
         THEN ValidationResult(FALSE, "Description must be less than 500 characters")
    ELSE ValidationResult(TRUE, "Valid description length")

validateModelNumber(value) ==
    IF value = <<>> THEN ValidationResult(FALSE, "Model Number is required")
    ELSE IF ~ModelNumberRegex(value)
         THEN ValidationResult(FALSE, "Format: 2 letters + 4 digits + optional letter (e.g., AB1234C)")
    ELSE ValidationResult(TRUE, "Valid model number format")

\* const validations = {...}: recomputed from formData at every render
validations(formData) ==
    [name |-> validateName(formData["name"]),
     productLine |-> validateProductLine(formData["productLine"]),
     erCode |-> validateERCode(formData["erCode"]),
     description |-> validateDescription(formData["description"]),
     modelNumber |-> validateModelNumber(formData["modelNumber"])]

MutAllValidNoTrim(formData) ==
    \A f \in Fields : validations(formData)[f].isValid

\* allValid of the effect on [formData]
allValid(formData) ==
    /\ \A f \in Fields : validations(formData)[f].isValid
    /\ \A f \in Fields : Trim(formData[f]) # <<>>

\* the keys of formData in the order useState creates them, which every
\* spread and JSON.parse keeps
FormKeys == <<"name", "productLine", "erCode", "description", "modelNumber">>

\* the characters of a key
KeyText(f) ==
    CASE f = "name" -> <<"n","a","m","e">>
      [] f = "productLine" -> <<"p","r","o","d","u","c","t","L","i","n","e">>
      [] f = "erCode" -> <<"e","r","C","o","d","e">>
      [] f = "description" -> <<"d","e","s","c","r","i","p","t","i","o","n">>
      [] f = "modelNumber" -> <<"m","o","d","e","l","N","u","m","b","e","r">>

MutJsonEscapeCharRaw(c) == <<c>>

\* JSON.stringify: one character of a string (QuoteJSONString)
JsonEscapeChar(c) ==
    CASE c = "\"" -> <<"\\", "\"">>
      [] c = "\\" -> <<"\\", "\\">>
      [] c = "\n" -> <<"\\", "n">>
      [] c = "\t" -> <<"\\", "t">>
      [] c = "\r" -> <<"\\", "r">>
      [] c = "\f" -> <<"\\", "f">>
      [] OTHER    -> <<c>>

RECURSIVE JsonEscape(_)
JsonEscape(s) ==
    IF s = <<>> THEN <<>>
    ELSE IF Len(s) = 1 THEN JsonEscapeChar(s[1])
    ELSE JsonEscape(SubSeq(s, 1, Len(s) \div 2))
         \o JsonEscape(SubSeq(s, Len(s) \div 2 + 1, Len(s)))

JsonQuote(s) == <<"\"">> \o JsonEscape(s) \o <<"\"">>

RECURSIVE JsonMembers(_, _)
JsonMembers(formData, i) ==
    IF i > Len(FormKeys) THEN <<>>
    ELSE (IF i > 1 THEN <<",">> ELSE <<>>)
         \o JsonQuote(KeyText(FormKeys[i])) \o <<":">> \o JsonQuote(formData[FormKeys[i]])
         \o JsonMembers(formData, i + 1)

\* JSON.stringify(formData): the text of an object of five strings
JSONStringify(formData) == <<"{">> \o JsonMembers(formData, 1) \o <<"}">>

\* the result of a parse step that throws SyntaxError
SyntaxError == [ok |-> FALSE]

\* the character an escape sequence \c of a JSON string stands for
JsonUnescape(c) ==
    CASE c = "\"" -> "\""
      [] c = "\\" -> "\\"
      [] c = "/" -> "/"
      [] c = "n" -> "\n"
      [] c = "t" -> "\t"
      [] c = "r" -> "\r"
      [] c = "f" -> "\f"
      [] OTHER -> ""

\* JSON.parse inside a string, after the opening quote: the characters up to
\* the closing quote, escape sequences replaced
RECURSIVE JsonScanString(_, _, _)
JsonScanString(s, i, acc) ==
    IF i > Len(s) THEN SyntaxError
    ELSE IF s[i] = "\"" THEN [ok |-> TRUE, value |-> acc, next |-> i + 1]
    ELSE IF s[i] = "\\"
         THEN IF i + 1 > Len(s) \/ JsonUnescape(s[i + 1]) = "" THEN SyntaxError
              ELSE JsonScanString(s, i + 2, Append(acc, JsonUnescape(s[i + 1])))
    ELSE IF s[i] \in {"\n", "\t", "\r", "\f"} THEN SyntaxError
    ELSE JsonScanString(s, i + 1, Append(acc, s[i]))

JsonParseString(s, i) ==
    IF i <= Len(s) /\ s[i] = "\"" THEN JsonScanString(s, i + 1, <<>>) ELSE SyntaxError

\* JSON.parse of the members of an object whose values are strings: the
\* object read so far is a function from key texts to values
RECURSIVE JsonParseMembers(_, _, _)
JsonParseMembers(s, i, obj) ==
    LET key == JsonParseString(s, i)
    IN  IF ~key.ok \/ key.next > Len(s) \/ s[key.next] # ":" THEN SyntaxError
        ELSE LET val == JsonParseString(s, key.next + 1)
             IN  IF ~val.ok \/ val.next > Len(s) THEN SyntaxError
                 ELSE LET more == [k \in DOMAIN obj \cup {key.value} |->
                                      IF k = key.value THEN val.value ELSE obj[k]]
                      IN  IF s[val.next] = "," THEN JsonParseMembers(s, val.next + 1, more)
                          ELSE IF s[val.next] = "}" /\ val.next = Len(s)
                               THEN [ok |-> TRUE, value |-> more]
                          ELSE SyntaxError

\* JSON.parse(savedDraft)
JSONParse(text) ==
    IF Len(text) < 2 \/ text[1] # "{" THEN SyntaxError
    ELSE IF Len(text) = 2 /\ text[2] = "}" THEN [ok |-> TRUE, value |-> << >>]
    ELSE JsonParseMembers(text, 2, << >>)

\* the parsed draft as form data: an object with the five keys
AsFormData(obj) == [f \in Fields |-> obj[KeyText(f)]]

\* localStorage.getItem(DRAFT_KEY) when nothing is stored: null, which is no text
NoDraft == <<"NULL">>

\* the state of the component at its first render
InitialFormData == [f \in Fields |-> <<>>]
InitialState ==
    [formData |-> InitialFormData, isFormValid |-> FALSE, isSubmitted |-> FALSE,
     isDraftSaved |-> FALSE, hasDraft |-> FALSE, isSubmitting |-> FALSE]

MutValidityEffectNoTrim(state) ==
    [state EXCEPT !.isFormValid = MutAllValidNoTrim(state.formData), !.isDraftSaved = FALSE]

\* the effect on [formData], with the render it causes: isFormValid follows the
\* fields, and the draft-saved flag is dropped
ValidityEffect(state) ==
    [state EXCEPT !.isFormValid = allValid(state.formData), !.isDraftSaved = FALSE]

\* the effect on mount that reads the draft; a text that does not parse is
\* logged and ignored
LoadDraft(state, savedDraft) ==
    IF savedDraft = NoDraft \/ savedDraft = <<>> THEN state
    ELSE LET parsedDraft == JSONParse(savedDraft)
         IN  IF parsedDraft.ok
             THEN [state EXCEPT !.formData = AsFormData(parsedDraft.value),
                                !.hasDraft = TRUE]
             ELSE state

\* the component after mounting with savedDraft in localStorage: both effects
\* of the first render, then the effect on the loaded formData
Mount(savedDraft) == ValidityEffect(LoadDraft(InitialState, savedDraft))

\* handleInputChange for the field called name
handleInputChange(state, name, value) ==
    ValidityEffect([state EXCEPT !.formData[name] = value, !.isSubmitted = FALSE])

\* The handlers below work on the component c = [ui, draft, timers]: the
\* React state, the text in localStorage and the pending timers.
handleSaveDraft(c) ==
    [ui |-> [c.ui EXCEPT !.isDraftSaved = TRUE, !.hasDraft = TRUE],
     draft |-> JSONStringify(c.ui.formData),
     timers |-> Append(c.timers, DraftSavedMs)]

MutHandleClearDraftToggle(c) ==
    [ui |-> ValidityEffect([c.ui EXCEPT !.formData = InitialFormData,
                                        !.hasDraft = ~c.ui.hasDraft,
                                        !.isDraftSaved = FALSE,
                                        !.isSubmitted = FALSE]),
     draft |-> NoDraft,
     timers |-> c.timers]

handleClearDraft(c) ==
    [ui |-> ValidityEffect([c.ui EXCEPT !.formData = InitialFormData,
                                        !.hasDraft = FALSE,
                                        !.isDraftSaved = FALSE,
                                        !.isSubmitted = FALSE]),
     draft |-> NoDraft,
     timers |-> c.timers]

\* the callback of setTimeout in handleSaveDraft
DraftSavedExpired(state) == [state EXCEPT !.isDraftSaved = FALSE]

MutSubmitEnabledWhileSubmitting(state) == state.isFormValid

\* the submit button can be pressed: disabled={!isFormValid || isSubmitting}
SubmitEnabled(state) == state.isFormValid /\ ~state.isSubmitting

MutSubmitSucceededKeepDraft(c) ==
    [c EXCEPT !.ui = [@ EXCEPT !.isSubmitted = TRUE, !.isSubmitting = FALSE]]

\* handleSubmit after the await, result.success true, with the finally block
SubmitSucceeded(c) ==
    [c EXCEPT !.ui = [@ EXCEPT !.isSubmitted = TRUE, !.hasDraft = FALSE,
                               !.isSubmitting = FALSE],
              !.draft = NoDraft]

\* handleSubmit after the await, result.success false, with the finally block
SubmitRejected(c) == [c EXCEPT !.ui = [@ EXCEPT !.isSubmitting = FALSE]]

(***************************************************************************)
(* Inputs of the model                                                     *)
(***************************************************************************)
BaseBody ==
    [name |-> <<"A","b">>, productLine |-> <<"1","2">>, erCode |-> <<"E","R","1","2","3","4","5","6">>,
     description |-> <<"d","e","s","c","r","i","p","t","i","o">>, modelNumber |-> <<"A","B","1","2","3","4">>]

NameInputs ==
    { <<>>, <<" ">>, <<"A">>, <<"A","1">>, <<"A","\t","b">>, <<" ","A","b"," ">>,
      Rep("A", NameMaxLen + 1) }
ProductLineInputs == { <<>>, <<"A","B","-","1","2">>, <<"G","M","(","E","I","P",")">>, <<"g","m">> }
ERCodeInputs == { <<"E","R","1","2","3","4","5">>, <<"E","R","1","2","3","4","5","6","7">>, <<"e","r","1","2","3","4","5","6">>, <<" ">> \o <<"E","R","1","2","3","4","5","6">> }
DescriptionInputs ==
    { <<"s","h","o","r","t">>, <<"a","&","b","c","d","e","f","g","h">>,
      Rep("x", DescMaxLen + 1), Rep("x", DescMaxLen - 1) \o <<"&">> }
ModelNumberInputs == { <<"A","B","1","2","3","4","C">>, <<"a","b","1","2","3","4">>, <<"A","B","1","2","3">>, <<"A","B","1","2","3","4","C","D">> }

InputsOf(f) ==
    CASE f = "name" -> NameInputs
      [] f = "productLine" -> ProductLineInputs
      [] f = "erCode" -> ERCodeInputs
      [] f = "description" -> DescriptionInputs
      [] f = "modelNumber" -> ModelNumberInputs

\* a value of field f that breaks its constraint
BadValue(f) ==
    CASE f = "name" -> <<"A","1">>
      [] f = "productLine" -> <<"A","B","-","1","2">>
      [] f = "erCode" -> <<"E","R","1","2","3","4","5">>
      [] f = "description" -> <<"s","h","o","r","t">>
      [] f = "modelNumber" -> <<"a","b","1","2","3","4">>

\* timestamps a client may put in the body: none of them a time of the server clock
ClientStamps == { MaxTime + 1, MaxTime + 2 }

WithStamp(body, t) ==
    [k \in DOMAIN body \cup {"submittedAt"} |-> IF k = "submittedAt" THEN t ELSE body[k]]

\* The bodies sent to POST /api/submissions: the valid body with one field
\* replaced by each of its inputs, every combination of valid and invalid
\* fields, a body lacking one key, and the valid body with a client timestamp.
Bodies ==
    {[BaseBody EXCEPT ![f] = v] : <<f, v>> \in UNION {{f} \X InputsOf(f) : f \in Fields}}
    \cup {[f \in Fields |-> IF f \in bad THEN BadValue(f) ELSE BaseBody[f]] :
              bad \in SUBSET Fields}
    \cup {[f \in Fields \ {g} |-> BaseBody[f]] : g \in Fields}
    \cup {WithStamp(BaseBody, t) : t \in ClientStamps}
    \cup {WithStamp([BaseBody EXCEPT !["erCode"] = <<"E","R","1","2","3","4","5">>], t) : t \in ClientStamps}

\* a few bodies, one for each kind of answer of the create handler
CoreBodies ==
    { BaseBody,
      WithStamp(BaseBody, MaxTime + 1),
      [BaseBody EXCEPT !["erCode"] = BadValue("erCode")],
      [f \in Fields \ {"name"} |-> BaseBody[f]] }

\* form data handed to submitForm: the empty form, a form the client validators
\* accept, and a form the schema accepts
EmptyForm == [f \in Fields |-> <<>>]
ClientValidForm == [BaseBody EXCEPT !["productLine"] = <<"A","B","-","1","2">>]
ClientForms == { EmptyForm, ClientValidForm, BaseBody }

\* Values typed into the form: the ER code and its deletion, and a
\* description of blanks
TenBlanks == Rep(" ", 10)
FormEdits ==
    { <<"erCode", <<"E","R","1","2","3","4","5","6">> >>,
      <<"erCode", <<>> >>,
      <<"description", TenBlanks>> }

\* Values typed into one field to exercise its validator: values of the rule,
\* and values one character short, one long, or with one character off
TypedValues(f) ==
    CASE f = "name" ->
           { <<"A">>, <<"A","b">>, <<"A"," ","b">>, <<"A","1">>, <<"A","\t","b">>, <<" "," ">> }
      [] f = "productLine" ->
           { <<"A","B">>, <<"A","B","-","1","2">>, <<"A","B","C","D","-","1","2","3","4">>,
             <<"A","-","1","2">>, <<"A","B","-","1">>, <<"A","B","C","D","E","-","1","2">>,
             <<"A","B","-","1","2","3","4","5">>, <<"a","b","-","1","2">>, <<"M","M","A">>,
             <<"A","B","1","2">> }
      [] f = "erCode" ->
           { <<"E","R","1","2","3","4","5","6">>, <<"E","R","1","2","3","4","5">>,
             <<"E","R","1","2","3","4","5","6","7">>, <<"e","r","1","2","3","4","5","6">>,
             <<"E","R","1","2","3","4","5","x">> }
      [] f = "description" ->
           { Rep("x", 9), Rep("x", 10), Rep("x", 500), Rep("x", 501), TenBlanks }
      [] f = "modelNumber" ->
           { <<"A","B","1","2","3","4">>, <<"A","B","1","2","3","4","C">>, <<"A","B","1","2","3">>,
             <<"a","b","1","2","3","4">>, <<"A","B","1","2","3","4","C","D">>,
             <<"A","B","1","2","3","4","c">> }

\* a form saved as a draft in an earlier session: everything but the ER code,
\* the description with a quote and a backslash
DraftedForm ==
    [name |-> <<"A","b">>, productLine |-> <<"A","B","-","1","2">>, erCode |-> <<>>,
     description |-> <<"s","a","y"," ","\"","h","i","\"","\\","n">>,
     modelNumber |-> <<"A","B","1","2","3","4">>]

\* a text under DRAFT_KEY that JSON.parse rejects
BrokenDraft == <<"{","\"","n","a","m","e">>

\* what localStorage holds under DRAFT_KEY when the component mounts
StartDrafts == { NoDraft, JSONStringify(DraftedForm), BrokenDraft }

\* every value a field of the form can take in the model
FormValues(f) ==
    {InitialFormData[f], DraftedForm[f]} \cup {e[2] : e \in {x \in FormEdits : x[1] = f}}

\* every form the component can hold
Forms ==
    {[name |-> n, productLine |-> p, erCode |-> e, description |-> d, modelNumber |-> m] :
        n \in FormValues("name"), p \in FormValues("productLine"),
        e \in FormValues("erCode"), d \in FormValues("description"),
        m \in FormValues("modelNumber")}

\* the bodies sent to the service by its clients and by submitForm
ServiceBodies ==
    Bodies \cup CoreBodies \cup {WithStamp(form, t) : form \in ClientForms, t \in ClientStamps}

\* every body a handler of the model may receive: those, and the forms of the
\* component as submitForm sends them
AllBodies ==
    ServiceBodies \cup {WithStamp(form, t) : form \in Forms, t \in ClientStamps}

\* route parameters :id
IdInputs ==
    {ObjectIdOf(n) : n \in 1..MaxIds}
    \cup { <<"x","y","z">>, Rep("g", ObjectIdHexLen), Rep("0", ObjectIdHexLen - 1) }

\* query strings of GET /api/submissions: a function from the parameters given
\* to their text
Queries ==
    {[page |-> p, limit |-> l] : p \in {<<"1">>, <<"2">>}, l \in {<<"1">>, <<"2">>}}
    \cup { << >>,
           [page |-> <<"0">>],
           [page |-> <<"2","x">>],
           [limit |-> <<"x">>],
           [page |-> <<"3">>, limit |-> <<"1">>] }

\* internal texts of store faults (error.message of the driver's error)
ErrTexts == {"connection timed out", "topology was destroyed"}

(***************************************************************************)
(* State                                                                   *)
(***************************************************************************)
VARIABLES
    store,      \* the FormSubmission collection: a set of documents
    nextId,     \* how many ObjectIds the store has handed out
    now,        \* the server clock (new Date(), Date.now)
    req,        \* the last request a handler answered, with the server time
    resp,       \* the response to it: [status, body]
    queried,    \* the number of store calls the handler made for it
    lst,        \* the list handler between its two store calls
    api,        \* the call of apiService.submitForm in progress
    ui,         \* the React state of TISValidationTool, as last rendered
    draft,      \* localStorage under DRAFT_KEY: NoDraft or the stored text
    timers,     \* pending setTimeout callbacks of handleSaveDraft: time left, oldest first
    awaiting,   \* handleSubmit invocations suspended at await submitForm
    ev          \* the last event the component handled

serverVars == <<store, nextId, now, req, resp, queried, lst>>
clientVars == <<ui, draft, timers, awaiting, ev>>
vars == <<store, nextId, now, req, resp, queried, lst, api, ui, draft, timers, awaiting, ev>>

Json(status, body) == [status |-> status, body |-> body]

IdleList == [pc |-> "idle"]
IdleApi == [pc |-> "idle"]

ServiceInit ==
    /\ store = {}
    /\ nextId = 0
    /\ now = 0
    /\ req = [op |-> "none"]
    /\ resp = Json(0, [success |-> FALSE, message |-> "none"])
    /\ queried = 0
    /\ lst = IdleList
    /\ api = IdleApi

\* the component has mounted with savedDraft under DRAFT_KEY
Mounted(savedDraft) ==
    /\ draft = savedDraft
    /\ ui = Mount(savedDraft)
    /\ timers = <<>>
    /\ awaiting = 0
    /\ ev = "mount"

\* the service is up and the component has mounted on an empty localStorage
Init == ServiceInit /\ Mounted(NoDraft)

\* the same, with any of the start drafts in localStorage
FormInit == ServiceInit /\ \E savedDraft \in StartDrafts : Mounted(savedDraft)

(***************************************************************************)
(* POST /api/submissions                                                   *)
(***************************************************************************)
MutNewFormSubmissionClientStamp(formData, id, t) ==
    [_id |-> id,
     name |-> formData["name"],
     productLine |-> formData["productLine"],
     erCode |-> formData["erCode"],
     description |-> formData["description"],
     modelNumber |-> formData["modelNumber"],
     submittedAt |-> IF Has(formData, "submittedAt") THEN formData["submittedAt"] ELSE t]

\* new FormSubmission({...formData, submittedAt: new Date()}): the schema
\* paths of the body, with submittedAt set by the server after the spread
NewFormSubmission(formData, id, t) ==
    [_id |-> id,
     name |-> formData["name"],
     productLine |-> formData["productLine"],
     erCode |-> formData["erCode"],
     description |-> formData["description"],
     modelNumber |-> formData["modelNumber"],
     submittedAt |-> t]

\* the early return of the handler: some field is missing or empty
AllFieldsRequired(formData) == \E f \in Fields : Falsy(formData, f)

\* the catch block of the handler, for an error other than a ValidationError
SaveFailed(e) ==
    Json(500, [success |-> FALSE, message |-> "Failed to save form submission",
               error |-> e])

\* req.body after sanitizeInput, for each body of the model
Sanitized == [body \in AllBodies |-> SanitizeInput(body)]

PostSubmission(body) ==
    LET formData == Sanitized[body]
    IN  /\ req' = [op |-> "create", body |-> body, at |-> now]
        /\ UNCHANGED <<now, lst>>
        /\ IF AllFieldsRequired(formData)
           THEN /\ resp' = Json(400, [success |-> FALSE,
                                      message |-> "All fields are required"])
                /\ queried' = 0
                /\ UNCHANGED <<store, nextId>>
           ELSE LET newSubmission ==
                        NewFormSubmission(formData, ObjectIdOf(nextId + 1), now)
                    errors == ValidationErrors(newSubmission)
                IN  IF errors # <<>>
                    THEN \* save() rejects with a ValidationError before any write
                         /\ resp' = Json(400, [success |-> FALSE,
                                               message |-> "Validation failed",
                                               errors |-> errors])
                         /\ queried' = 0
                         /\ UNCHANGED <<store, nextId>>
                    ELSE \/ /\ nextId < MaxIds
                            /\ store' = store \cup {newSubmission}
                            /\ nextId' = nextId + 1
                            /\ queried' = 1
                            /\ resp' = Json(201, [success |-> TRUE,
                                                  message |-> "Form submitted successfully",
                                                  data |-> newSubmission])
                         \/ \E e \in ErrTexts :
                               /\ resp' = SaveFailed(e)
                               /\ queried' = 1
                               /\ UNCHANGED <<store, nextId>>

\* errorHandler, the middleware behind the routes: it answers the errors the
\* routes do not catch themselves, such as a body express.json cannot parse
ErrorHandler(err) ==
    IF err.name = "ValidationError"
    THEN Json(400, [success |-> FALSE, message |-> "Validation failed",
                    errors |-> err.errors])
    ELSE IF err.name = "CastError"
    THEN Json(400, [success |-> FALSE, message |-> "Invalid ID format"])
    ELSE Json(500, [success |-> FALSE, message |-> "Internal server error"])

PostMalformedJson ==
    /\ req' = [op |-> "create-unparsed"]
    /\ resp' = ErrorHandler([name |-> "SyntaxError"])
    /\ queried' = 0
    /\ UNCHANGED <<store, nextId, now, lst>>

(***************************************************************************)
(* GET /api/submissions                                                    *)
(***************************************************************************)
DigitValue(c) == CHOOSE d \in 0..9 : DigitChars[d + 1] = c

RECURSIVE Decimal(_)
Decimal(s) ==
    IF s = <<>> THEN 0
    ELSE 10 * Decimal(SubSeq(s, 1, Len(s) - 1)) + DigitValue(s[Len(s)])

\* parseInt(req.query.k) || dflt, for unsigned text: the leading digits of the
\* parameter; NaN (no parameter, no leading digit) and 0 give the default
ParseIntOr(query, k, dflt) ==
    IF ~Has(query, k) THEN dflt
    ELSE LET s == query[k]
             stop == {i \in 1..Len(s) : s[i] \notin Digit}
             digits == IF stop = {} THEN s ELSE SubSeq(s, 1, SetMin(stop) - 1)
         IN  IF digits = <<>> \/ Decimal(digits) = 0 THEN dflt ELSE Decimal(digits)

\* .find().sort({ submittedAt: -1 }): the documents in descending submittedAt;
\* the order of documents of equal submittedAt is the store's choice
SortedDesc(S) ==
    {q \in [1..Cardinality(S) -> S] :
        /\ \A i, j \in 1..Cardinality(S) : i # j => q[i] # q[j]
        /\ \A i, j \in 1..Cardinality(S) : i < j => q[i].submittedAt >= q[j].submittedAt}

\* .skip(skip).limit(limit)
SkipLimit(q, skip, limit) ==
    SubSeq(q, skip + 1, IF skip + limit < Len(q) THEN skip + limit ELSE Len(q))

MutCeilFloor(a, b) == a \div b

\* Math.ceil(a / b) for b > 0
Ceil(a, b) == (a + b - 1) \div b

FetchFailed(e) ==
    Json(500, [success |-> FALSE, message |-> "Failed to fetch submissions",
               error |-> e])

\* The number of writes the store has applied: every insert takes a new
\* ObjectId and every delete removes a document, so two moments with the same
\* version have the same documents.
StoreVersion == 2 * nextId - Cardinality(store)

\* the handler up to its first await: find().sort().skip().limit()
ListFind(query) ==
    LET page == ParseIntOr(query, "page", DefaultPage)
        limit == ParseIntOr(query, "limit", DefaultLimit)
        skip == (page - 1) * limit
    IN  /\ lst.pc = "idle"
        /\ UNCHANGED <<store, nextId, now>>
        /\ \/ \E q \in SortedDesc(store) :
                 /\ lst' = [pc |-> "count", query |-> query, page |-> page,
                            limit |-> limit, skip |-> skip,
                            submissions |-> SkipLimit(q, skip, limit),
                            version |-> StoreVersion]
                 /\ UNCHANGED <<req, resp, queried>>
           \/ \E e \in ErrTexts :
                 /\ req' = [op |-> "list", query |-> query, version |-> StoreVersion]
                 /\ resp' = FetchFailed(e)
                 /\ queried' = 1
                 /\ UNCHANGED lst

\* the rest of the handler: countDocuments() and the response
ListCount ==
    /\ lst.pc = "count"
    /\ req' = [op |-> "list", query |-> lst.query, version |-> lst.version]
    /\ queried' = 2
    /\ lst' = IdleList
    /\ UNCHANGED <<store, nextId, now>>
    /\ \/ LET total == Cardinality(store)
          IN  resp' = Json(200, [success |-> TRUE,
                                 data |-> lst.submissions,
                                 pagination |->
                                     [current |-> lst.page,
                                      total |-> Ceil(total, lst.limit),
                                      hasMore |-> lst.skip + Len(lst.submissions) < total]])
       \/ \E e \in ErrTexts : resp' = FetchFailed(e)

(***************************************************************************)
(* GET and DELETE /api/submissions/:id                                     *)
(***************************************************************************)
InvalidSubmissionId ==
    Json(400, [success |-> FALSE, message |-> "Invalid submission ID"])
SubmissionNotFound ==
    Json(404, [success |-> FALSE, message |-> "Submission not found"])

MutByIdAnyDocument(id) == store

\* findById, findByIdAndDelete: the documents with that _id
ById(id) == {d \in store : d._id = id}

GetSubmission(id) ==
    /\ req' = [op |-> "get", id |-> id]
    /\ UNCHANGED <<store, nextId, now, lst>>
    /\ IF ~ObjectIdIsValid(id)
       THEN /\ resp' = InvalidSubmissionId
            /\ queried' = 0
       ELSE /\ queried' = 1
            /\ \/ /\ ById(id) = {}
                  /\ resp' = SubmissionNotFound
               \/ \E submission \in ById(id) :
                     resp' = Json(200, [success |-> TRUE, data |-> submission])
               \/ \E e \in ErrTexts :
                     resp' = Json(500, [success |-> FALSE,
                                        message |-> "Failed to fetch submission",
                                        error |-> e])

DeleteSubmission(id) ==
    /\ req' = [op |-> "delete", id |-> id]
    /\ UNCHANGED <<nextId, now, lst>>
    /\ IF ~ObjectIdIsValid(id)
       THEN /\ resp' = InvalidSubmissionId
            /\ queried' = 0
            /\ UNCHANGED store
       ELSE /\ queried' = 1
            /\ \/ /\ ById(id) = {}
                  /\ resp' = SubmissionNotFound
                  /\ UNCHANGED store
               \/ \E submission \in ById(id) :
                     /\ store' = store \ {submission}
                     /\ resp' = Json(200, [success |-> TRUE,
                                           message |-> "Submission deleted successfully"])
               \/ \E e \in ErrTexts :
                     /\ resp' = Json(500, [success |-> FALSE,
                                           message |-> "Failed to delete submission",
                                           error |-> e])
                     /\ UNCHANGED store

(***************************************************************************)
(* GET /api/health, and the clock                                          *)
(***************************************************************************)
Health ==
    /\ req' = [op |-> "health"]
    /\ resp' = Json(200, [success |-> TRUE, message |-> "Server is running",
                          timestamp |-> now])
    /\ queried' = 0
    /\ UNCHANGED <<store, nextId, now, lst>>

Tick ==
    /\ now < MaxTime
    /\ now' = now + 1
    /\ UNCHANGED <<store, nextId, req, resp, queried, lst>>

(***************************************************************************)
(* apiService.submitForm                                                   *)
(***************************************************************************)
NoResponse == Json(0, [text |-> ""])
NoText == ""

\* an error the axios call rejects with: error.code, error.message and
\* error.response (NoText and NoResponse where the error has none)
AxiosError(code, message, response) ==
    [code |-> code, message |-> message, response |-> response]

\* the rejection of a response whose status is not 2xx
HttpError(response) ==
    AxiosError(IF response.status >= 500 THEN "ERR_BAD_RESPONSE" ELSE "ERR_BAD_REQUEST",
               CASE response.status = 400 -> "Request failed with status code 400"
                 [] response.status = 429 -> "Request failed with status code 429"
                 [] response.status = 500 -> "Request failed with status code 500"
                 [] OTHER -> "Request failed",
               response)

\* rejections without a response: the code the retry test looks for, the code
\* of a connection failure, a timeout after 10000 ms, and a rejection that
\* carries neither code nor message
TransportErrors ==
    { AxiosError("NETWORK_ERROR", "Network Error", NoResponse),
      AxiosError("ERR_NETWORK", "Network Error", NoResponse),
      AxiosError("ECONNABORTED", "timeout of 10000ms exceeded", NoResponse),
      AxiosError(NoText, NoText, NoResponse) }

\* the answer of the rate limiter in front of the routes: a text, not JSON
TooManyRequests ==
    Json(429, [text |-> "Too many requests from this IP, please try again later."])

GenericFailure == "Failed to submit form. Please try again later."

\* error.response?.data?.message, or NoText
ResponseMessage(error) ==
    IF Has(error.response.body, "message") THEN error.response.body.message ELSE NoText

MutErrorMessageNoOwnMessage(error) ==
    IF ResponseMessage(error) # NoText THEN ResponseMessage(error) ELSE GenericFailure

\* the message of the failure result
ErrorMessage(error) ==
    IF ResponseMessage(error) # NoText THEN ResponseMessage(error)
    ELSE IF error.message # NoText THEN error.message
    ELSE GenericFailure

MutShouldRetryOnceMore(retries, error) == retries >= 0 /\ error.code = "NETWORK_ERROR"
MutShouldRetryAnyError(retries, error) == retries > 0

\* retries > 0 && error.code === 'NETWORK_ERROR'
ShouldRetry(retries, error) == retries > 0 /\ error.code = "NETWORK_ERROR"

\* submitForm(formData) is called with the default retry count
SubmitForm(formData) ==
    /\ api.pc \in {"idle", "done"}
    /\ api' = [pc |-> "post", formData |-> formData, retries |-> DefaultRetries,
               attempts |-> 0, errors |-> <<>>]
    /\ UNCHANGED serverVars

\* the try block returns the success result
Succeed(response) ==
    api' = [api EXCEPT !.pc = "done", !.attempts = @ + 1] @@
           [result |-> [success |-> TRUE, message |-> "Form submitted successfully",
                        data |-> response.body.data]]

\* the catch block: wait and call submitForm again, or return the failure result
Catch(error) ==
    IF ShouldRetry(api.retries, error)
    THEN api' = [api EXCEPT !.pc = "backoff", !.attempts = @ + 1,
                            !.errors = Append(@, error)]
    ELSE api' = [api EXCEPT !.pc = "done", !.attempts = @ + 1,
                            !.errors = Append(@, error)] @@
                [result |-> [success |-> FALSE, message |-> ErrorMessage(error)]]

\* apiClient.post reaches the create handler and its answer comes back
PostAnswered ==
    /\ api.pc = "post"
    /\ \E t \in ClientStamps : PostSubmission(WithStamp(api.formData, t))
    /\ IF resp'.status = 201 THEN Succeed(resp') ELSE Catch(HttpError(resp'))
    /\ UNCHANGED clientVars

\* the request fails before any handler runs
PostFailed ==
    /\ api.pc = "post"
    /\ \E error \in TransportErrors : Catch(error)
    /\ UNCHANGED <<serverVars, clientVars>>

\* the create handler runs but its answer does not come back in time
PostLost ==
    /\ api.pc = "post"
    /\ \E t \in ClientStamps : PostSubmission(WithStamp(api.formData, t))
    /\ \E error \in TransportErrors : error.code # NoText /\ Catch(error)
    /\ UNCHANGED clientVars

\* the rate limiter answers instead of the handler
PostRateLimited ==
    /\ api.pc = "post"
    /\ Catch(HttpError(TooManyRequests))
    /\ UNCHANGED <<serverVars, clientVars>>

\* the 1000 ms wait is over: submitForm(formData, retries - 1)
BackoffElapsed ==
    /\ api.pc = "backoff"
    /\ api' = [api EXCEPT !.pc = "post", !.retries = @ - 1]
    /\ UNCHANGED <<serverVars, clientVars>>

SubmitFormCall == \E formData \in ClientForms : SubmitForm(formData) /\ UNCHANGED clientVars

(***************************************************************************)
(* TISValidationTool: the events of the component                          *)
(***************************************************************************)
Component == [ui |-> ui, draft |-> draft, timers |-> timers]

Becomes(c) ==
    /\ ui' = c.ui
    /\ draft' = c.draft
    /\ timers' = c.timers

\* onChange of a field whose text changed
Edit ==
    /\ \E e \in FormEdits :
          /\ ui.formData[e[1]] # e[2]
          /\ ui' = handleInputChange(ui, e[1], e[2])
    /\ ev' = "edit"
    /\ UNCHANGED <<serverVars, api, draft, timers, awaiting>>

\* onChange of one field with any of the typed values, or with the field emptied
Type ==
    /\ \E f \in Fields : \E value \in TypedValues(f) \cup {<<>>} :
          /\ ui.formData[f] # value
          /\ ui' = handleInputChange(ui, f, value)
    /\ ev' = "edit"
    /\ UNCHANGED <<serverVars, api, draft, timers, awaiting>>

\* click on Save Draft
SaveDraft ==
    /\ Len(timers) < MaxTimers
    /\ Becomes(handleSaveDraft(Component))
    /\ ev' = "save"
    /\ UNCHANGED <<serverVars, api, awaiting>>

\* click on Save Draft when localStorage.setItem throws: the catch block only
\* reports the failure
SaveDraftFailed ==
    /\ ev' = "save-failed"
    /\ UNCHANGED <<serverVars, api, ui, draft, timers, awaiting>>

\* click on Clear Draft, which is rendered while hasDraft
ClearDraft ==
    /\ ui.hasDraft
    /\ Becomes(handleClearDraft(Component))
    /\ ev' = "clear"
    /\ UNCHANGED <<serverVars, api, awaiting>>

\* submit of the form through the enabled button: handleSubmit up to its await
Submit ==
    /\ SubmitEnabled(ui)
    /\ awaiting < MaxAwaiting
    /\ IF ui.isFormValid
       THEN /\ ui' = [ui EXCEPT !.isSubmitting = TRUE]
            /\ awaiting' = awaiting + 1
            /\ ev' = "submit"
            /\ IF api.pc = "idle"
               THEN SubmitForm(ui.formData)
               ELSE UNCHANGED <<serverVars, api>>
       ELSE /\ ev' = "submit-ignored"
            /\ UNCHANGED <<serverVars, api, ui, awaiting>>
    /\ UNCHANGED <<draft, timers>>

\* submitForm has returned: handleSubmit from its await to the end
SubmitReturned ==
    /\ awaiting > 0
    /\ api.pc = "done"
    /\ Becomes(IF api.result.success THEN SubmitSucceeded(Component)
               ELSE SubmitRejected(Component))
    /\ awaiting' = awaiting - 1
    /\ api' = IdleApi
    /\ ev' = "returned"
    /\ UNCHANGED serverVars

\* the oldest timer of handleSaveDraft is due
TimerFires ==
    /\ timers # <<>>
    /\ Head(timers) = 0
    /\ ui' = DraftSavedExpired(ui)
    /\ timers' = Tail(timers)
    /\ ev' = "timer"
    /\ UNCHANGED <<serverVars, api, draft, awaiting>>

\* one unit of time (1000 ms) passes while timers are pending and none is due
Elapse ==
    /\ timers # <<>>
    /\ \A i \in 1..Len(timers) : timers[i] > 0
    /\ timers' = [i \in 1..Len(timers) |-> timers[i] - 1]
    /\ UNCHANGED <<serverVars, api, ui, draft, awaiting, ev>>

\* the page is loaded again: the component mounts on the localStorage left
\* behind; the calls and timers of the old page are gone with it
Reload ==
    /\ ui' = Mount(draft)
    /\ timers' = <<>>
    /\ awaiting' = 0
    /\ api' = IdleApi
    /\ ev' = "mount"
    /\ UNCHANGED <<serverVars, draft>>

\* apiClient.post answered with 201 by the service behind VITE_API_URL when
\* that is a deployment whose product lines include the one of the form
PostCreatedElsewhere ==
    /\ api.pc = "post"
    /\ \E t \in ClientStamps :
          Succeed(Json(201, [success |-> TRUE, message |-> "Form submitted successfully",
                             data |-> NewFormSubmission(Sanitized[WithStamp(api.formData, t)],
                                                        ObjectIdOf(1), now)]))
    /\ UNCHANGED <<serverVars, clientVars>>

(***************************************************************************)
(* Requests from any client of the service                                 *)
(***************************************************************************)
CreateAny == \E body \in Bodies : PostSubmission(body) /\ UNCHANGED <<api, clientVars>>
Create == \E body \in CoreBodies : PostSubmission(body) /\ UNCHANGED <<api, clientVars>>
CreateUnparsed == PostMalformedJson /\ UNCHANGED <<api, clientVars>>
ListBegin == \E query \in Queries : ListFind(query) /\ UNCHANGED <<api, clientVars>>
ListEnd == ListCount /\ UNCHANGED <<api, clientVars>>
GetById == \E id \in IdInputs : GetSubmission(id) /\ UNCHANGED <<api, clientVars>>
DeleteById == \E id \in IdInputs : DeleteSubmission(id) /\ UNCHANGED <<api, clientVars>>
HealthCheck == Health /\ UNCHANGED <<api, clientVars>>
ClockTick == Tick /\ UNCHANGED <<api, clientVars>>

\* the service under every request, lists interleaved with writes
ServerNext ==
    \/ Create
    \/ CreateUnparsed
    \/ ListBegin
    \/ ListEnd
    \/ GetById
    \/ DeleteById
    \/ HealthCheck
    \/ ClockTick

ServerSpec == Init /\ [][ServerNext]_vars

\* the create handler under every body of the model
CreateNext ==
    \/ CreateAny
    \/ CreateUnparsed
    \/ DeleteById
    \/ ClockTick

CreateSpec == Init /\ [][CreateNext]_vars

\* the submission client against the service
ClientNext ==
    \/ SubmitFormCall
    \/ PostAnswered
    \/ PostFailed
    \/ PostLost
    \/ PostRateLimited
    \/ BackoffElapsed
    \/ ClockTick

ClientSpec == Init /\ [][ClientNext]_vars

\* the submission client when every request settles and every timer fires
PostAttempt == PostAnswered \/ PostFailed \/ PostLost \/ PostRateLimited

FairClientSpec ==
    ClientSpec /\ WF_vars(PostAttempt) /\ WF_vars(BackoffElapsed)

\* the form component with submitForm against the service
FormNext ==
    \/ Edit
    \/ SaveDraft
    \/ SaveDraftFailed
    \/ ClearDraft
    \/ Submit
    \/ SubmitReturned
    \/ TimerFires
    \/ Elapse
    \/ Reload
    \/ PostAnswered
    \/ PostFailed
    \/ BackoffElapsed

FormSpec == FormInit /\ [][FormNext]_vars

\* the fields of the form under typing, for the validators
TypingNext == Type

TypingSpec == Init /\ [][TypingNext]_vars

\* the form component against a deployment that accepts its product lines
DeployedNext == FormNext \/ PostCreatedElsewhere

DeployedSpec == FormInit /\ [][DeployedNext]_vars

\* the whole system
Next == ServerNext \/ CreateNext \/ ClientNext \/ DeployedNext \/ TypingNext

Spec == Init /\ [][Next]_vars

(***************************************************************************)
(* Claims                                                                  *)
(***************************************************************************)

\* The field constraints as the data model states them.
LettersAndSpaces(v) == \A i \in 1..Len(v) : v[i] \in Upper \cup Lower \cup {" "}
NameConstraint(v) == Len(v) >= 2 /\ Len(v) <= 100 /\ LettersAndSpaces(v)
ERCodeConstraint(v) ==
    Len(v) = 8 /\ SubSeq(v, 1, 2) = <<"E","R">> /\ \A i \in 3..8 : v[i] \in Digit
DescriptionConstraint(v) == Len(v) >= 10 /\ Len(v) <= 500
ModelNumberConstraint(v) ==
    \/ Len(v) = 6 /\ {v[1], v[2]} \subseteq Upper /\ \A i \in 3..6 : v[i] \in Digit
    \/ Len(v) = 7 /\ {v[1], v[2], v[7]} \subseteq Upper /\ \A i \in 3..6 : v[i] \in Digit

\* C1: every persisted Submission satisfies all five field constraints: name
\* 2-100 characters of letters and spaces, productLine in the enum, erCode ER
\* and 6 digits, description 10-500 characters, modelNumber 2 uppercase
\* letters, 4 digits and an optional uppercase letter.
C1_PersistedSatisfyConstraints ==
    \A d \in store :
        /\ NameConstraint(d.name)
        /\ d.productLine \in ProductLineEnum
        /\ ERCodeConstraint(d.erCode)
        /\ DescriptionConstraint(d.description)
        /\ ModelNumberConstraint(d.modelNumber)

\* the fields of a sanitized body that are missing, blank or rejected by a
\* validator of the schema, and the message the schema has for each
ViolatedFields(formData) ==
    {f \in Fields : Falsy(formData, f) \/ PathError(f, formData[f]) # NoError}
FieldMessage(formData, f) ==
    PathError(f, IF Has(formData, f) THEN formData[f] ELSE <<>>)

\* C2: a Create whose payload violates one or more field constraints (a
\* missing or blank field included) is answered 400 with a body that lists one
\* message per violated field, naming every failing field.
C2_EveryFailingFieldNamed ==
    req.op = "create" =>
        LET formData == Sanitized[req.body]
            violated == ViolatedFields(formData)
        IN  violated # {} =>
                /\ resp.status = 400
                /\ Has(resp.body, "errors")
                /\ Len(resp.body.errors) = Cardinality(violated)
                /\ {resp.body.errors[i] : i \in 1..Len(resp.body.errors)}
                       = {FieldMessage(formData, f) : f \in violated}

\* C3: the set of stored records changes only by a successful Create, which
\* adds exactly one new record, or by a successful Delete by id, which removes
\* exactly the record with that id; every other request and every rejected or
\* failed request leaves the store as it is, and no request changes the fields
\* of an existing record.
C3_StoreFrame ==
    [][ /\ \A d \in store : \A e \in store' : e._id = d._id => e = d
        /\ store' # store =>
              \/ /\ req'.op = "create"
                 /\ resp'.status = 201
                 /\ \A d \in store : d._id # resp'.body.data._id
                 /\ store' = store \cup {resp'.body.data}
              \/ /\ req'.op = "delete"
                 /\ resp'.status = 200
                 /\ Cardinality({d \in store : d._id = req'.id}) = 1
                 /\ store' = {d \in store : d._id # req'.id}
        /\ (Create /\ resp'.status = 201) =>
              Cardinality(store') = Cardinality(store) + 1
        /\ (DeleteById /\ resp'.status = 200) =>
              Cardinality(store') = Cardinality(store) - 1
        /\ (Create /\ resp'.status # 201) => store' = store
        /\ (DeleteById /\ resp'.status # 200) => store' = store
        /\ (CreateUnparsed \/ ListBegin \/ ListEnd \/ GetById \/ HealthCheck) =>
              store' = store
      ]_vars

\* a Delete by id has removed one record and left another one in the store
C3_Witness ==
    /\ req.op = "delete"
    /\ resp.status = 200
    /\ store # {}
    /\ nextId = MaxIds

\* the bodies of the model that carry a client timestamp
StampedBodies == {b \in ServiceBodies : Has(b, "submittedAt")}

\* C4: the stored record's submittedAt is the server's time at the write,
\* whatever submittedAt the request body carries: bodies that differ only in
\* the client's submittedAt give the same document at the same server time.
C4_ServerAssignedTimestamp ==
    /\ (req.op = "create" /\ resp.status = 201) =>
           resp.body.data.submittedAt = req.at
    /\ \A d \in store : d.submittedAt \in 0..now
    /\ \A b \in StampedBodies :
           NewFormSubmission(Sanitized[b], ObjectIdOf(nextId), now)
               = NewFormSubmission([f \in Fields |-> Sanitized[b][f]], ObjectIdOf(nextId), now)

\* a body carrying a client timestamp was stored with the server's time
C4_Witness ==
    /\ req.op = "create"
    /\ resp.status = 201
    /\ Has(req.body, "submittedAt")
    /\ req.body["submittedAt"] # resp.body.data.submittedAt
    /\ resp.body.data \in store

\* an id of the store: 24 hexadecimal digits
WellFormedId(id) == Len(id) = 24 /\ \A i \in 1..Len(id) : id[i] \in HexDigit

\* C5: Get by id and Delete by id answer a syntactically invalid id with the
\* 400 bad-id error before any store query, never with 404; 404 is answered
\* only for a well-formed id with no matching record.
C5_BadIdBeforeQuery ==
    req.op \in {"get", "delete"} =>
        /\ ~WellFormedId(req.id) =>
               /\ resp = Json(400, [success |-> FALSE, message |-> "Invalid submission ID"])
               /\ queried = 0
        /\ resp.status = 404 =>
               /\ WellFormedId(req.id)
               /\ \A d \in store : d._id # req.id
        /\ WellFormedId(req.id) => resp.status # 400 /\ queried = 1

\* a Delete by id with an id that is no ObjectId was answered 400
C5_Witness ==
    /\ req.op = "delete"
    /\ ~WellFormedId(req.id)
    /\ resp.status = 400
    /\ store # {}

\* the query gives page and limit as numerals of 1 or more, or leaves them out
IsNumeral(s) == s # <<>> /\ \A i \in 1..Len(s) : s[i] \in Digit
GivenOrDefault(query, k, dflt) == IF Has(query, k) THEN Decimal(query[k]) ELSE dflt
CoveredQuery(query) ==
    \A k \in DOMAIN query : IsNumeral(query[k]) /\ Decimal(query[k]) >= 1

SeqRange(q) == {q[i] : i \in 1..Len(q)}

\* C6: List with page p >= 1 and limit l >= 1 (defaults 1 and 10) against N
\* stored records, none added or removed while the handler runs, returns the
\* records of page p in descending submittedAt order, min(l, max(0, N-(p-1)l))
\* of them, with pagination.current = p, pagination.total = ceil(N / l) and
\* pagination.hasMore true exactly when p * l < N.
C6_Pagination ==
    (/\ req.op = "list"
     /\ resp.status = 200
     /\ req.version = StoreVersion
     /\ CoveredQuery(req.query)) =>
        LET p == GivenOrDefault(req.query, "page", 1)
            l == GivenOrDefault(req.query, "limit", 10)
            N == Cardinality(store)
            data == resp.body.data
            rest == IF N - (p - 1) * l > 0 THEN N - (p - 1) * l ELSE 0
            pagination == resp.body.pagination
        IN  /\ Len(data) = IF l < rest THEN l ELSE rest
            /\ SeqRange(data) \subseteq store
            /\ Cardinality(SeqRange(data)) = Len(data)
            /\ \A i, j \in 1..Len(data) :
                   i < j => data[i].submittedAt >= data[j].submittedAt
            /\ \E before \in SUBSET (store \ SeqRange(data)) :
                   /\ Cardinality(before) = N - rest
                   /\ \A b \in before : \A d \in store \ before :
                          b.submittedAt >= d.submittedAt
                   /\ \A d \in SeqRange(data) : \A r \in (store \ before) \ SeqRange(data) :
                          d.submittedAt >= r.submittedAt
            /\ pagination.current = p
            /\ pagination.total * l >= N
            /\ (pagination.total - 1) * l < N
            /\ pagination.hasMore = (p * l < N)

\* page 1 of limit 1 was listed while the store held two records
C6_Witness ==
    /\ req.op = "list"
    /\ resp.status = 200
    /\ req.version = StoreVersion
    /\ req.query = [page |-> <<"1">>, limit |-> <<"1">>]
    /\ Cardinality(store) = 2
    /\ resp.body.pagination = [current |-> 1, total |-> 2, hasMore |-> TRUE]
    /\ Len(resp.body.data) = 1

\* a call of submitForm has returned
Returned == api.pc = "done"
Failed == Returned /\ ~api.result.success
LastError == api.errors[Len(api.errors)]
NetworkErrors(k) ==
    Len(api.errors) >= k /\ \A i \in 1..k : api.errors[i].code = "NETWORK_ERROR"

C7_Attempts ==
    api.pc # "idle" =>
        /\ api.attempts <= 4
        /\ (Returned /\ api.result.success) =>
               /\ api.attempts = Len(api.errors) + 1
               /\ Len(api.errors) <= 3
               /\ NetworkErrors(Len(api.errors))
        /\ NetworkErrors(4) =>
               /\ Failed
               /\ api.attempts = 4
        /\ (~Returned /\ Len(api.errors) <= 3) =>
               /\ NetworkErrors(Len(api.errors))
               /\ api.attempts = Len(api.errors)

\* C7: submitForm with the default retry count 3 always terminates after at
\* most 4 POST attempts: after k <= 3 network errors and a success on attempt
\* k + 1 it returns success after exactly k + 1 attempts, and after 4 network
\* errors it returns a failure result without a fifth attempt.
C7_BoundedRetry ==
    /\ []C7_Attempts
    /\ (api.pc = "post") ~> Returned

\* two network errors, then success: three attempts
C7_Witness ==
    /\ Returned
    /\ api.result.success
    /\ api.attempts = 3
    /\ NetworkErrors(2)

\* C8: an attempt that fails with anything but the retry-eligible network
\* error (a 400 rejection, a 500, a timeout) is the last one: submitForm
\* returns a failure result right after it, whatever retry count remains.
C8_NoRetryOnOtherFailure ==
    api.pc # "idle" =>
        \A i \in 1..Len(api.errors) :
            api.errors[i].code # "NETWORK_ERROR" =>
                /\ i = Len(api.errors)
                /\ Failed
                /\ api.attempts = i

\* a timeout on the second attempt ended the call with two retries left
C8_Witness ==
    /\ Failed
    /\ Len(api.errors) = 2
    /\ api.errors[1].code = "NETWORK_ERROR"
    /\ api.errors[2].code = "ECONNABORTED"
    /\ api.retries = 2

\* the server's error body of the failure carries a message
CarriesServerMessage(error) ==
    Has(error.response.body, "message") /\ error.response.body.message # ""

\* C9 as stated: a failed submitForm returns the message of the server's error
\* body when the failure carries one, and otherwise the fixed generic message.
C9_ServerMessageOrGeneric ==
    Failed =>
        /\ DOMAIN api.result = {"success", "message"}
        /\ api.result.message =
               IF CarriesServerMessage(LastError)
               THEN LastError.response.body.message
               ELSE "Failed to submit form. Please try again later."

\* C9 amended: a failed submitForm returns {success: false, message} where
\* message is the message of the server's error body when the failure carries
\* one, otherwise the message of the error itself when it has one, and only
\* otherwise the fixed generic message.
C9_FailureMessage ==
    Failed =>
        /\ DOMAIN api.result = {"success", "message"}
        /\ api.result.message =
               IF CarriesServerMessage(LastError)
               THEN LastError.response.body.message
               ELSE IF LastError.message # ""
               THEN LastError.message
               ELSE "Failed to submit form. Please try again later."

\* the retries are exhausted and the result carries the network error's message
C9_Witness ==
    /\ Failed
    /\ NetworkErrors(4)
    /\ api.result.message = "Network Error"

\* C10: a response to an unclassified store fault is a 500 whose body holds
\* only success = false and a fixed message, the same for every internal
\* error text.
C10_GenericFaultBody ==
    resp.status = 500 =>
        /\ DOMAIN resp.body = {"success", "message"}
        /\ resp.body.success = FALSE
        /\ resp.body.message \in
               { "Failed to save form submission", "Failed to fetch submissions",
                 "Failed to fetch submission", "Failed to delete submission",
                 "Internal server error" }

\* the form is valid as the component defines it: every validator passes and
\* no field is blank after trimming
FormIsValid(form) ==
    /\ validateName(form["name"]).isValid
    /\ validateProductLine(form["productLine"]).isValid
    /\ validateERCode(form["erCode"]).isValid
    /\ validateDescription(form["description"]).isValid
    /\ validateModelNumber(form["modelNumber"]).isValid
    /\ \A f \in Fields : Trim(form[f]) # <<>>

\* C11: handleSubmit starts a network call only when, for the current field
\* values, all five validators pass and all five fields are non-blank after
\* trimming: isFormValid is never true of an invalid form, a call that has
\* just been started carries the current fields, every call carries a valid
\* form, and the empty form cannot be submitted.
C11_SubmitOnlyValidForm ==
    /\ ui.isFormValid => FormIsValid(ui.formData)
    /\ ev = "submit" => api.pc # "idle" /\ api.formData = ui.formData
    /\ api.pc # "idle" => FormIsValid(api.formData)
    /\ ui.formData = InitialFormData => ~ui.isFormValid /\ ~SubmitEnabled(ui)

\* a call was started by a submit made after a draft was loaded, saved again
\* and the missing field typed in
C11_Witness ==
    /\ ev = "submit"
    /\ api.pc = "post"
    /\ ui.hasDraft
    /\ draft = JSONStringify(ui.formData)

\* C12: at most one submitForm call of the component is outstanding at any
\* time: while a handleSubmit is suspended at its await (isSubmitting set, the
\* call posting, backing off or returned but not yet handled) no second call
\* is started, whatever edits, saves and clears happen meanwhile.
C12_OneOutstandingSubmit ==
    /\ awaiting <= 1
    /\ ui.isSubmitting <=> awaiting = 1
    /\ api.pc # "idle" => awaiting = 1

\* a call is waiting to retry while the form has been edited back to a valid
\* one, so that only isSubmitting keeps the button disabled
C12_Witness ==
    /\ api.pc = "backoff"
    /\ awaiting = 1
    /\ ev = "edit"
    /\ ui.isFormValid

\* the step in which handleSubmit resumes after its await
SubmitReturns == api.pc = "done" /\ api' = IdleApi /\ ev' = "returned"

\* C13: when a submit completes with success, right afterwards nothing is
\* stored under the draft key and hasDraft is false, also when the draft was
\* saved while the submit was outstanding; when it completes with failure, the
\* stored draft and hasDraft are as they were.
C13_SuccessClearsDraft ==
    [][SubmitReturns =>
          IF api.result.success
          THEN draft' = NoDraft /\ ~ui'.hasDraft
          ELSE draft' = draft /\ ui'.hasDraft = ui.hasDraft]_vars

\* a submit has just completed with success while the display window of a
\* saved draft was still running
C13_Witness ==
    /\ ev = "returned"
    /\ ui.isSubmitted
    /\ draft = NoDraft
    /\ ~ui.hasDraft
    /\ timers # <<>>

\* field maps with characters that JSON text has to escape
RoundTripForms ==
    { InitialFormData,
      [InitialFormData EXCEPT !["name"] = <<"\\", "\"">>,
                              !["description"] = <<"\n", "\\", "n", "\t", " ">>],
      [DraftedForm EXCEPT !["name"] = <<"A", "\t", "b">>,
                          !["productLine"] = <<"{", "\"", ":", "\"", ",", "}">>,
                          !["modelNumber"] = <<"\\", "\\", "\"">>] }

\* loading savedDraft on start gives the fields of form, and hasDraft
LoadsAs(savedDraft, form) ==
    /\ Mount(savedDraft).formData = form
    /\ Mount(savedDraft).hasDraft

\* the text that save-draft stores for a field map parses back to it, and
\* loads as it
RoundTrip ==
    \A form \in Forms \cup RoundTripForms :
        /\ JSONParse(JSONStringify(form)).ok
        /\ AsFormData(JSONParse(JSONStringify(form)).value) = form
        /\ LoadsAs(handleSaveDraft([ui |-> [InitialState EXCEPT !.formData = form],
                                    draft |-> NoDraft, timers |-> <<>>]).draft, form)

\* right after a save, the stored text is one that loads as the saved fields
SavedDraftLoads ==
    /\ RoundTrip
    /\ ev = "save" => ui.hasDraft /\ LoadsAs(draft, ui.formData)

\* C14: draft round trip: for every field map, valid or not, save-draft
\* followed by load-on-start yields form fields equal to the saved field map
\* and hasDraft true.
C14_DraftRoundTrip ==
    /\ []SavedDraftLoads
    /\ [][ev = "save" /\ ev' = "mount" => ui'.formData = ui.formData /\ ui'.hasDraft]_vars

\* the page was loaded on a draft saved after the ER code had been typed in
C14_Witness ==
    /\ ev = "mount"
    /\ ui.hasDraft
    /\ draft = JSONStringify(ui.formData)
    /\ ui.formData["erCode"] # <<>>
    /\ ui.formData["description"] = DraftedForm["description"]

\* C15: clear-draft is idempotent: from any state of the component, clearing
\* twice leaves the same state as clearing once, namely no stored draft, all
\* five fields empty, and hasDraft, isDraftSaved and isSubmitted all false.
C15_ClearDraftIdempotent ==
    LET once == handleClearDraft(Component)
        twice == handleClearDraft(once)
    IN  /\ twice = once
        /\ once.draft = NoDraft
        /\ once.ui.formData = InitialFormData
        /\ ~once.ui.hasDraft /\ ~once.ui.isDraftSaved /\ ~once.ui.isSubmitted
        /\ ev = "clear" => Component = once

\* the draft has just been cleared while a submit was outstanding and the
\* display window of a save was running
C15_Witness ==
    /\ ev = "clear"
    /\ ui.isSubmitting
    /\ timers # <<>>
    /\ draft = NoDraft

\* The rules of the five fields as documented for the client.
ClientNameRule(v) == Len(v) >= 2 /\ LettersAndSpaces(v)
ClientProductLineRule(v) ==
    /\ Len(v) >= 3
    /\ \E dash \in 1..Len(v) :
          /\ v[dash] = "-"
          /\ dash - 1 \in 2..4
          /\ Len(v) - dash \in 2..4
          /\ \A i \in 1..(dash - 1) : v[i] \in Upper
          /\ \A i \in (dash + 1)..Len(v) : v[i] \in Digit
ClientERCodeRule(v) ==
    Len(v) = 8 /\ SubSeq(v, 1, 2) = <<"E","R">> /\ \A i \in 3..8 : v[i] \in Digit
ClientDescriptionRule(v) == Len(v) >= 10 /\ Len(v) <= 500
ClientModelNumberRule(v) ==
    /\ Len(v) \in {6, 7}
    /\ \A i \in 1..Len(v) : IF i \in 3..6 THEN v[i] \in Digit ELSE v[i] \in Upper

\* the validators other than validateName agree with their rules on the
\* current fields
OtherValidatorsMatchRules ==
    /\ validations(ui.formData)["productLine"].isValid
          <=> ClientProductLineRule(ui.formData["productLine"])
    /\ validations(ui.formData)["erCode"].isValid <=> ClientERCodeRule(ui.formData["erCode"])
    /\ validations(ui.formData)["description"].isValid
          <=> ClientDescriptionRule(ui.formData["description"])
    /\ validations(ui.formData)["modelNumber"].isValid
          <=> ClientModelNumberRule(ui.formData["modelNumber"])

\* C16: each of the five client validators returns isValid = true exactly for
\* the values of its documented rule, and false otherwise (the empty string
\* included): name of at least 2 characters matching ^[A-Za-z ]+$, productLine
\* of at least 3 characters matching ^[A-Z]{2,4}-[0-9]{2,4}$, erCode matching
\* ^ER[0-9]{6}$, description of length 10 to 500, modelNumber matching
\* ^[A-Z]{2}[0-9]{4}[A-Z]?$.
C16_ValidatorsMatchRules ==
    /\ validations(ui.formData)["name"].isValid <=> ClientNameRule(ui.formData["name"])
    /\ OtherValidatorsMatchRules

\* the time left of the window of the last save
LastWindowLeft == timers[Len(timers)]

\* C17: after every save-draft the draft-saved flag is set and stays set for
\* the full display window (DraftSavedMs time units) counted from that save,
\* and is then cleared automatically, unless a field is edited or the draft is
\* cleared (or the page loaded again) in between; also when save-draft is
\* performed again while the window of an earlier save is running.  In steps:
\* a save sets the flag; a set flag has a timer pending; and the flag is
\* dropped only by an edit, a clear, a reload, or by a timer at the moment the
\* window of the last save has run out.
C17_SavedFlagFullWindow ==
    [][/\ (ev' = "save" /\ timers' # timers) => ui'.isDraftSaved
       /\ ui'.isDraftSaved => timers' # <<>>
       /\ (ui.isDraftSaved /\ ~ui'.isDraftSaved) =>
             \/ ev' \in {"edit", "clear", "mount"}
             \/ ev' = "timer" /\ LastWindowLeft = 0]_vars

\* no product line passes both the client's validator and the service's list
NoCommonProductLine ==
    /\ \A v \in ProductLineEnum :
          ~validateProductLine(v).isValid /\ PathError("productLine", v) = NoError
    /\ \A v \in TypedValues("productLine") \cup FormValues("productLine") :
          validateProductLine(v).isValid => PathError("productLine", v) # NoError
    /\ \A form \in Forms : FormIsValid(form) => form["productLine"] \notin ProductLineEnum

\* C18: no productLine value is accepted by both sides: every value of the
\* service's list is rejected by validateProductLine and every value the
\* validator accepts is outside the list; hence every submit the form allows
\* is answered by the create handler with a validation error naming the
\* product line, and no form submitted by the component is ever persisted.
C18_ClientFormsNeverPersisted ==
    /\ NoCommonProductLine
    /\ req.op = "create" =>
          /\ FormIsValid([f \in Fields |-> req.body[f]])
          /\ resp.status = 400
          /\ resp.body.message = "Validation failed"
          /\ \E i \in 1..Len(resp.body.errors) :
                resp.body.errors[i] = "Please select a valid product line"
    /\ store = {}

\* a form the component let through was posted, rejected by the service, and
\* the failure handled by handleSubmit
C18_Witness ==
    /\ ev = "returned"
    /\ req.op = "create"
    /\ resp.status = 400
    /\ FormIsValid(ui.formData)
    /\ ~ui.isSubmitted

====
